---- MODULE Spec2Model ----
(***************************************************************************)
(* A model of go-phpserialize: the php.Value model (php/value.go), the    *)
(* encoder (encode.go) and the decoder (decode.go).                        *)
(*                                                                         *)
(* Bytes are the integers 0..255, byte strings are sequences of bytes.     *)
(* A *php.Value is an address into `heap` (0 is the nil pointer); a heap   *)
(* node carries the Type tag t and, under a field named after the dynamic  *)
(* Go type held by the interface field i, the payload.                     *)
(* Go offsets are 0-based: Go's data[k] is data[k + 1] here.               *)
(***************************************************************************)
EXTENDS Integers, Sequences, FiniteSets, TLC

VARIABLES
    heap,   \* the allocated php.Value nodes, by address
    arg,    \* the generic host value handed to Marshal (encode.go:21)
    buf,    \* the byte buffer: Marshal's output, Unmarshal's input
    ret     \* the last operation, its arguments and what it returned

vars == <<heap, arg, buf, ret>>

(***************************************************************************)
(* Bounds of the model.                                                    *)
(***************************************************************************)
MaxElems == 1       \* pairs handed to one php.Array call
MaxAppend == 3      \* values handed to one php.Append call
MaxMapKeys == 5     \* keys of a host mapping

(***************************************************************************)
(* Bytes.                                                                  *)
(***************************************************************************)
Ch == [nul |-> 0, quote |-> 34, star |-> 42, plus |-> 43, minus |-> 45,
       dot |-> 46, zero |-> 48, nine |-> 57, colon |-> 58, semi |-> 59,
       A |-> 65, F |-> 70, I |-> 73, N |-> 78, O |-> 79,
       a |-> 97, b |-> 98, c |-> 99, d |-> 100, i |-> 105, s |-> 115,
       x |-> 120, z |-> 122, lbrace |-> 123, rbrace |-> 125]

IsDigit(c) == Ch.zero <= c /\ c <= Ch.nine

Min(S) == CHOOSE m \in S : \A n \in S : m <= n

\* bytes.IndexByte(s[from:], c): the 0-based index in s[from:], or -1
IndexByte(s, from, c) ==
    LET I == {k \in (from + 1)..Len(s) : s[k] = c}
    IN  IF I = {} THEN -1 ELSE Min(I) - 1 - from

\* Go's s[from:] on a byte string
Tail_(s, from) == SubSeq(s, from + 1, Len(s))

\* byte-wise lexicographic a < b (Go's string <)
RECURSIVE BytesLess(_, _)
BytesLess(a, b) ==
    IF b = <<>> THEN FALSE
    ELSE IF a = <<>> THEN TRUE
    ELSE IF a[1] # b[1] THEN a[1] < b[1]
    ELSE BytesLess(Tail(a), Tail(b))

(***************************************************************************)
(* Decimal text: fmt's %d and strconv.Atoi.                                *)
(***************************************************************************)
RECURSIVE Digits(_)
Digits(n) == IF n < 10 THEN <<Ch.zero + n>>
             ELSE Digits(n \div 10) \o <<Ch.zero + (n % 10)>>

\* fmt.Fprintf("%d", n)
FormatInt(n) == IF n < 0 THEN <<Ch.minus>> \o Digits(-n) ELSE Digits(n)

RECURSIVE DigitsVal(_, _)
DigitsVal(bs, acc) ==
    IF bs = <<>> THEN acc
    ELSE DigitsVal(Tail(bs), 10 * acc + (bs[1] - Ch.zero))

\* strconv.Atoi: an optional sign and at least one digit, nothing else
Atoi(bs) ==
    LET signed == bs # <<>> /\ bs[1] \in {Ch.minus, Ch.plus}
        ds == IF signed THEN Tail(bs) ELSE bs
    IN  IF ds = <<>> \/ \E k \in 1..Len(ds) : ~IsDigit(ds[k])
        THEN [ok |-> FALSE, n |-> 0]
        ELSE [ok |-> TRUE,
              n |-> IF signed /\ bs[1] = Ch.minus THEN -DigitsVal(ds, 0)
                    ELSE DigitsVal(ds, 0)]

(***************************************************************************)
(* float64.  A finite float is the double nearest to the decimal           *)
(* (-1)^neg * m * 10^-e with m not divisible by 10 unless e = 0; for the   *)
(* short decimals used here the shortest round-trip rendering of that      *)
(* double is the decimal itself.                                           *)
(***************************************************************************)
NaN_ == [c |-> "nan", neg |-> FALSE, m |-> 0, e |-> 0]
Inf_(sign) == [c |-> "inf", neg |-> sign < 0, m |-> 0, e |-> 0]
Fin(neg, m, e) == [c |-> "fin", neg |-> neg, m |-> m, e |-> e]

RECURSIVE NormFloat(_, _, _)
NormFloat(neg, m, e) ==
    IF e > 0 /\ m % 10 = 0 THEN NormFloat(neg, m \div 10, e - 1)
    ELSE Fin(neg, m, e)

RECURSIVE Pow10(_)
Pow10(e) == IF e = 0 THEN 1 ELSE 10 * Pow10(e - 1)

RECURSIVE PadDigits(_, _)
PadDigits(n, width) ==
    IF width = 0 THEN <<>>
    ELSE PadDigits(n \div 10, width - 1) \o <<Ch.zero + (n % 10)>>

\* fmt's %v of a finite float64 (strconv 'g', shortest, no exponent in the
\* range modelled)
FormatFloat(f) ==
    (IF f.neg THEN <<Ch.minus>> ELSE <<>>)
    \o Digits(f.m \div Pow10(f.e))
    \o (IF f.e = 0 THEN <<>>
        ELSE <<Ch.dot>> \o PadDigits(f.m % Pow10(f.e), f.e))

\* strconv.ParseFloat on decimal text: sign, digits, optional fraction
ParseFloat(bs) ==
    LET signed == bs # <<>> /\ bs[1] \in {Ch.minus, Ch.plus}
        body == IF signed THEN Tail(bs) ELSE bs
        dot == IndexByte(body, 0, Ch.dot)
        ip == IF dot < 0 THEN body ELSE SubSeq(body, 1, dot)
        fp == IF dot < 0 THEN <<>> ELSE Tail_(body, dot + 1)
        ds == ip \o fp
    IN  IF ds = <<>> \/ \E k \in 1..Len(ds) : ~IsDigit(ds[k])
        THEN [ok |-> FALSE, f |-> NaN_]
        ELSE [ok |-> TRUE,
              f |-> NormFloat(signed /\ bs[1] = Ch.minus,
                              DigitsVal(ds, 0), Len(fp))]

(***************************************************************************)
(* php.Type and its names.                                                 *)
(***************************************************************************)
TypeInvalid == 0
TypeNull == 1
TypeBool == 2
TypeInt == 3
TypeFloat == 4
TypeString == 5
TypeArray == 6
TypeObject == 7

typeNames == <<"invalid", "null", "bool", "int", "float", "string",
               "array", "object">>

\* Type.String (the numeric fallback is out of reach of the eight types)
Type_String(t) == IF t < Len(typeNames) THEN typeNames[t + 1] ELSE "type?"

VisibilityPublic == 0
VisibilityProtected == 1
VisibilityPrivate == 2

(***************************************************************************)
(* php.Value: constructors.  Each returns the node it allocates.           *)
(***************************************************************************)
phpNull == [t |-> TypeNull]
phpBool(v) == [t |-> TypeBool, bool |-> v]
phpInt(v) == [t |-> TypeInt, int64 |-> v]
phpFloat(v) == [t |-> TypeFloat, float64 |-> v]
phpNaN == phpFloat(NaN_)
phpInf(sign) == phpFloat(Inf_(sign))
phpString(v) == [t |-> TypeString, string |-> v]
phpArray(v) == [t |-> TypeArray, elems |-> v]
Element(index, value) == [Index |-> index, Value |-> value]
phpObject(name, fields) ==
    [t |-> TypeObject, obj |-> [Name |-> name, Fields |-> fields]]
Field(name, v, vis) == [Name |-> name, Visibility |-> vis, Value |-> v]
PubField(name, v) == Field(name, v, VisibilityPublic)
PrivField(name, v) == Field(name, v, VisibilityPublic)
ProtectedField(name, v) == Field(name, v, VisibilityPublic)

\* allocation: &Value{...}
Alloc(h, node) == [h |-> Append(h, node), p |-> Len(h) + 1]

(***************************************************************************)
(* php.Value: accessors.  A call either returns (panic = FALSE, v) or      *)
(* panics with a *ValueError (panic = TRUE, e).                            *)
(***************************************************************************)
ValueError(method, t) == [Method |-> method, Type |-> t]

ValueError_Error(e) ==
    IF e.Type = 0 THEN "php: call of " \o e.Method \o " on zero value"
    ELSE "php: call of " \o e.Method \o " on " \o Type_String(e.Type)
         \o " Value"

Returns(v) == [panic |-> FALSE, v |-> v]
valueError(method, t) == [panic |-> TRUE, e |-> ValueError(method, t)]

Value_Type(v) == v.t

Value_Bool(v) ==
    IF "bool" \in DOMAIN v THEN Returns(v.bool)
    ELSE valueError("php.Value.Bool", v.t)

\* Int with the type assertion's ok ignored
Value_Int_unchecked(v) ==
    IF "int64" \in DOMAIN v THEN Returns(v.int64) ELSE Returns(0)

Value_Int(v) ==
    IF "int64" \in DOMAIN v THEN Returns(v.int64)
    ELSE valueError("php.Value.Int", v.t)

Value_Float(v) ==
    IF "float64" \in DOMAIN v THEN Returns(v.float64)
    ELSE valueError("php.Value.Float", v.t)

\* the bytes of "<" + Type.String() + " value>", per type
Placeholder(t) == [text |-> "<" \o Type_String(t) \o " value>"]

\* never panics: the content of a String, a placeholder otherwise
Value_String(v) ==
    IF "string" \in DOMAIN v THEN Returns(v.string)
    ELSE Returns(Placeholder(v.t))

Value_Array(v) ==
    IF "elems" \in DOMAIN v THEN Returns(v.elems)
    ELSE valueError("php.Value.Array", v.t)

Value_Object(v) ==
    IF "obj" \in DOMAIN v THEN Returns(v.obj)
    ELSE valueError("php.Value.Object", v.t)

\* v == nil || v.t == TypeNull, on a pointer p into h
Value_IsNil(h, p) == p = 0 \/ h[p].t = TypeNull

\* Keys: the key pointers, in pair order
Value_Keys(v) ==
    LET a == Value_Array(v)
    IN  IF a.panic THEN a
        ELSE Returns([k \in 1..Len(a.v) |-> a.v[k].Index])

\* Index: the first pair whose key POINTER is index, else nil
Value_Index(v, index) ==
    LET a == Value_Array(v)
    IN  IF a.panic THEN a
        ELSE LET I == {k \in 1..Len(a.v) : a.v[k].Index = index}
             IN  IF I = {} THEN Returns(0) ELSE Returns(a.v[Min(I)].Value)

\* IndexByName: the first pair whose key's payload is the string name
Value_IndexByName(h, v, name) ==
    LET a == Value_Array(v)
    IN  IF a.panic THEN a
        ELSE LET I == {k \in 1..Len(a.v) :
                         /\ "string" \in DOMAIN h[a.v[k].Index]
                         /\ h[a.v[k].Index].string = name}
             IN  IF I = {} THEN Returns(0) ELSE Returns(a.v[Min(I)].Value)

(***************************************************************************)
(* php.Append.  A call returns (panic = FALSE, h, p) with the heap after   *)
(* its allocations and the new Array, or panics with Value.Array's error.  *)
(***************************************************************************)
\* the first loop of Append: next after the pairs ls[k..]
\* Append numbering the new pairs from the number of pairs
NextIndex_count(h, ls, k, next) == Len(ls)

RECURSIVE NextIndex(_, _, _, _)
NextIndex(h, ls, k, next) ==
    IF k > Len(ls) THEN next
    ELSE LET idx == h[ls[k].Index]
         IN  IF idx.t = TypeInt /\ next <= Value_Int(idx).v
             THEN NextIndex(h, ls, k + 1, Value_Int(idx).v + 1)
             ELSE NextIndex(h, ls, k + 1, next)

\* The slice an Array holds is [elems, cap, base]: its pairs, its capacity
\* and the identity of its backing array.  A slice made by a variadic call
\* or by make is full and shares its backing array with no other (base 0).
SliceCap(v) == IF "cap" \in DOMAIN v THEN v.cap ELSE Len(v.elems)
SliceBase(v) == IF "base" \in DOMAIN v THEN v.base ELSE 0
SliceOf(v) == [elems |-> v.elems, cap |-> SliceCap(v), base |-> SliceBase(v)]

\* Array(ls...): the Value holds the slice ls itself
phpArrayOf(ls) ==
    IF ls.base = 0 THEN phpArray(ls.elems)
    ELSE [t |-> TypeArray, elems |-> ls.elems, cap |-> ls.cap,
          base |-> ls.base]

\* the capacity append gives a full slice of pointers of capacity c (gc
\* toolchain, 64-bit, fewer than 256 elements)
GrowCap(c) == IF c = 0 THEN 1 ELSE 2 * c

\* backing[i] = e, as seen through every Array whose slice lies on the
\* backing array base and is longer than i (i is 0-based)
StoreSlot(h, base, i, e) ==
    [p \in 1..Len(h) |->
        IF /\ h[p].t = TypeArray /\ SliceBase(h[p]) = base
           /\ Len(h[p].elems) > i
        THEN [h[p] EXCEPT !.elems[i + 1] = e]
        ELSE h[p]]

\* append(ls, e): in place when ls has spare capacity, else into a new
\* backing array, named id
goAppend(h, ls, e, id) ==
    IF Len(ls.elems) < ls.cap
    THEN [h |-> StoreSlot(h, ls.base, Len(ls.elems), e),
          ls |-> [ls EXCEPT !.elems = Append(@, e)]]
    ELSE [h |-> h,
          ls |-> [elems |-> Append(ls.elems, e), cap |-> GrowCap(ls.cap),
                  base |-> id]]

\* the second loop of Append: ls = append(ls, Element(Int(next), e)); next++
RECURSIVE AppendLoop(_, _, _, _, _)
AppendLoop(h, ls, es, k, next) ==
    IF k > Len(es) THEN [h |-> h, ls |-> ls]
    ELSE LET a == Alloc(h, phpInt(next))
             g == goAppend(a.h, ls, Element(a.p, es[k]), a.p)
         IN  AppendLoop(g.h, g.ls, es, k + 1, next + 1)

phpAppend(h, v, es) ==
    LET a == Value_Array(h[v])
    IN  IF a.panic THEN [panic |-> TRUE, e |-> a.e, h |-> h, p |-> 0]
        ELSE LET l == AppendLoop(h, SliceOf(h[v]), es, 1,
                                 NextIndex(h, a.v, 1, 0))
                 r == Alloc(l.h, phpArrayOf(l.ls))
             IN  [panic |-> FALSE, h |-> r.h, p |-> r.p]

(***************************************************************************)
(* The encoder, typed path.  An encodeState is its buffer and the panic in *)
(* flight, if any: "" none, "serializeErr" the encoder's own error,        *)
(* anything else a panic Marshal does not recover.                         *)
(***************************************************************************)
newEncodeState == [buf |-> <<>>, panic |-> "", err |-> ""]

Write(w, bs) == IF w.panic # "" THEN w ELSE [w EXCEPT !.buf = @ \o bs]
Raise(w, kind, msg) ==
    IF w.panic # "" THEN w ELSE [w EXCEPT !.panic = kind, !.err = msg]

sNil == <<Ch.N, Ch.semi>>
sTrue == <<Ch.b, Ch.colon, Ch.zero + 1, Ch.semi>>
sFalse == <<Ch.b, Ch.colon, Ch.zero, Ch.semi>>
sNAN == <<Ch.d, Ch.colon, Ch.N, Ch.A, Ch.N, Ch.semi>>
sInf == <<Ch.d, Ch.colon, Ch.I, Ch.N, Ch.F, Ch.semi>>
sNegInf == <<Ch.d, Ch.colon, Ch.minus, Ch.I, Ch.N, Ch.F, Ch.semi>>

writeNil(w) == Write(w, sNil)
writeBool(w, b) == IF b THEN Write(w, sTrue) ELSE Write(w, sFalse)
writeInt(w, v) == Write(w, <<Ch.i, Ch.colon>> \o FormatInt(v) \o <<Ch.semi>>)
writeFloat(w, f) ==
    IF f.c = "nan" THEN Write(w, sNAN)
    ELSE IF f.c = "inf" /\ f.neg THEN Write(w, sNegInf)
    ELSE IF f.c = "inf" THEN Write(w, sInf)
    ELSE Write(w, <<Ch.d, Ch.colon>> \o FormatFloat(f) \o <<Ch.semi>>)
writeString(w, s) ==
    Write(w, <<Ch.s, Ch.colon>> \o FormatInt(Len(s))
             \o <<Ch.colon, Ch.quote>> \o s \o <<Ch.quote, Ch.semi>>)

\* `a:%d:{` and `O:%d:"%s":%d:{`
ArrayHeader(n) == <<Ch.a, Ch.colon>> \o FormatInt(n) \o <<Ch.colon, Ch.lbrace>>
ObjectHeader(name, n) ==
    <<Ch.O, Ch.colon>> \o FormatInt(Len(name)) \o <<Ch.colon, Ch.quote>>
    \o name \o <<Ch.quote, Ch.colon>> \o FormatInt(n)
    \o <<Ch.colon, Ch.lbrace>>

\* the field name writePHPObject writes for field f of the object objName
FieldWireName(objName, f) ==
    IF f.Visibility = VisibilityProtected THEN <<Ch.star>> \o f.Name
    ELSE IF f.Visibility = VisibilityPrivate
    THEN <<Ch.nul>> \o objName \o <<Ch.nul>> \o f.Name
    ELSE f.Name

RECURSIVE writePHPValue(_, _, _)
RECURSIVE writePHPArrayFrom(_, _, _, _)
RECURSIVE writePHPObjectFrom(_, _, _, _)

\* the loop of writePHPArray over arr[k..]
writePHPArrayFrom(w, h, arr, k) ==
    IF k > Len(arr) THEN w
    ELSE writePHPArrayFrom(
             writePHPValue(writePHPValue(w, h, arr[k].Index), h,
                           arr[k].Value),
             h, arr, k + 1)

writePHPArray(w, h, arr) ==
    Write(writePHPArrayFrom(Write(w, ArrayHeader(Len(arr))), h, arr, 1),
          <<Ch.rbrace>>)

\* the loop of writePHPObject over obj.Fields[k..]
writePHPObjectFrom(w, h, obj, k) ==
    IF k > Len(obj.Fields) THEN w
    ELSE writePHPObjectFrom(
             writePHPValue(
                 writeString(w, FieldWireName(obj.Name, obj.Fields[k])),
                 h, obj.Fields[k].Value),
             h, obj, k + 1)

writePHPObject(w, h, obj) ==
    Write(writePHPObjectFrom(
              Write(w, ObjectHeader(obj.Name, Len(obj.Fields))), h, obj, 1),
          <<Ch.rbrace>>)

\* an accessor's result r handed to the writer Op(w, payload)
Accessed(w, r, Op(_, _)) ==
    IF r.panic THEN Raise(w, "ValueError", ValueError_Error(r.e))
    ELSE Op(w, r.v)

writePHPValue(w, h, p) ==
    IF w.panic # "" THEN w
    ELSE IF Value_IsNil(h, p) THEN writeNil(w)
    ELSE LET v == h[p]
             wArr(w1, arr) == writePHPArray(w1, h, arr)
             wObj(w1, obj) == writePHPObject(w1, h, obj)
         IN  CASE v.t = TypeBool -> Accessed(w, Value_Bool(v), writeBool)
               [] v.t = TypeInt -> Accessed(w, Value_Int(v), writeInt)
               [] v.t = TypeFloat -> Accessed(w, Value_Float(v), writeFloat)
               [] v.t = TypeString ->
                      Accessed(w, Value_String(v), writeString)
               [] v.t = TypeArray -> Accessed(w, Value_Array(v), wArr)
               [] v.t = TypeObject -> Accessed(w, Value_Object(v), wObj)
               [] OTHER -> Raise(w, "serializeErr", "invalid PHPValue Type")

(***************************************************************************)
(* The decoder.  A decodeState is data, off, the heap the constructors     *)
(* allocate in, what was printed to standard output, and the panic in      *)
(* flight: "" none, "serializeErr" one raised by d.error, "runtime" a Go   *)
(* runtime error (index or slice bounds, makeslice).  Every read returns   *)
(* the state after it and its result v; once a panic is in flight every    *)
(* later step is skipped, as the unwinding stack skips it.                 *)
(***************************************************************************)
newDecodeState(data, h) ==
    [data |-> data, off |-> 0, h |-> h, out |-> <<>>, panic |-> "",
     err |-> ""]

Failed(d) == d.panic # ""
d_error(d, msg) ==
    IF Failed(d) THEN d ELSE [d EXCEPT !.panic = "serializeErr", !.err = msg]
d_fault(d, msg) ==
    IF Failed(d) THEN d ELSE [d EXCEPT !.panic = "runtime", !.err = msg]
Res(d, v) == [d |-> d, v |-> v]
\* a constructor call inside the decoder
New(d, node) ==
    LET a == Alloc(d.h, node) IN Res([d EXCEPT !.h = a.h], a.p)

isEOF(d) == Len(d.data) <= d.off

skipEq(d, str) ==
    IF Failed(d) THEN d
    ELSE LET end == d.off + Len(str)
         IN  IF Len(d.data) < end THEN d_error(d, "cannot read byte: EOF")
             ELSE IF \E k \in 1..Len(str) : str[k] # d.data[d.off + k]
             THEN d_error(d, "unexpected token")
             ELSE [d EXCEPT !.off = end]

readBytes(d, delim) ==
    IF Failed(d) THEN Res(d, <<>>)
    ELSE LET k == IndexByte(d.data, d.off, delim)
             end == d.off + k
         IN  IF k < 0 THEN Res(d_error(d, "unexpected EOF"), <<>>)
             ELSE Res([d EXCEPT !.off = end + 1],
                      SubSeq(d.data, d.off + 1, end))

\* a constructor call reached only when no panic is in flight
NewIf(d, node) == IF Failed(d) THEN Res(d, 0) ELSE New(d, node)

readNil(d) == NewIf(skipEq(d, sNil), phpNull)

\* fmt.Printf("bytes: %s\n", bs)
Printf(d, bs) == [d EXCEPT !.out = Append(@, bs)]

\* readBool after the Printf: the conversion of bs
readBool_conv(d, bs) ==
    IF bs = <<Ch.zero + 1>> THEN New(d, phpBool(TRUE))
    ELSE IF bs # <<Ch.zero>>
    THEN Res(d_error(d, "cannot convert to bool"), 0)
    ELSE New(d, phpBool(FALSE))

\* readBool after readBytes returned r
readBool_print(r) ==
    IF Failed(r.d) THEN Res(r.d, 0) ELSE readBool_conv(Printf(r.d, r.v), r.v)

readBool(d) == readBool_print(readBytes(skipEq(d, <<Ch.b, Ch.colon>>), Ch.semi))

\* readIntBody after readBytes returned r
readIntBody_conv(r, a) ==
    IF Failed(r.d) THEN Res(r.d, 0)
    ELSE IF ~a.ok THEN Res(d_error(r.d, "cannot convert to int"), 0)
    ELSE Res(r.d, a.n)

readIntBody_atoi(r) == readIntBody_conv(r, Atoi(r.v))

readIntBody(d, delim) == readIntBody_atoi(readBytes(d, delim))

readInt_new(r) == NewIf(r.d, phpInt(r.v))

readInt(d) == readInt_new(readIntBody(skipEq(d, <<Ch.i, Ch.colon>>), Ch.semi))

\* readFloat after readBytes returned r; f is strconv.ParseFloat's result
readFloat_conv(r, f) ==
    IF Failed(r.d) THEN Res(r.d, 0)
    ELSE IF r.v = <<Ch.N, Ch.A, Ch.N>> THEN New(r.d, phpFloat(NaN_))
    ELSE IF r.v = <<Ch.I, Ch.N, Ch.F>> THEN New(r.d, phpFloat(Inf_(0)))
    ELSE IF r.v = <<Ch.minus, Ch.I, Ch.N, Ch.F>>
    THEN New(r.d, phpFloat(Inf_(-1)))
    ELSE IF ~f.ok THEN Res(d_error(r.d, "cannot convert to float"), 0)
    ELSE New(r.d, phpFloat(f.f))

readFloat_parse(r) == readFloat_conv(r, ParseFloat(r.v))

readFloat(d) ==
    readFloat_parse(readBytes(skipEq(d, <<Ch.d, Ch.colon>>), Ch.semi))

\* readStrBody finding the closing quote by scanning for it
readStrBody_scan(d1, length) == readBytes(d1, Ch.quote)

\* readStrBody after the opening quote: d1.off is where the body starts
readStrBody_body(d1, length) ==
    IF Failed(d1) THEN Res(d1, <<>>)
    ELSE IF Len(d1.data) < d1.off + length
    THEN Res(d_error(d1, "unexpected EOF in string body"), <<>>)
    ELSE IF d1.off + length < d1.off
    THEN Res(d_fault(d1, "slice bounds out of range"), <<>>)
    ELSE Res(skipEq([d1 EXCEPT !.off = d1.off + length], <<Ch.quote>>),
             SubSeq(d1.data, d1.off + 1, d1.off + length))

readStrBody(d, length) == readStrBody_body(skipEq(d, <<Ch.quote>>), length)

readStringLiteral_body(l) == readStrBody(l.d, l.v)

readStringLiteral(d) ==
    readStringLiteral_body(
        readIntBody(skipEq(d, <<Ch.s, Ch.colon>>), Ch.colon))

readString_new(r) == NewIf(skipEq(r.d, <<Ch.semi>>), phpString(r.v))

readString(d) == readString_new(readStringLiteral(d))

\* the visibility marker of a decoded field name: the state, the name
\* without its marker, the visibility
FieldName(d, name) ==
    IF Failed(d) THEN [d |-> d, name |-> name, vis |-> VisibilityPublic]
    ELSE IF Len(name) = 0
    THEN [d |-> d_fault(d, "index out of range"), name |-> name,
          vis |-> VisibilityPublic]
    ELSE IF name[1] = Ch.star
    THEN [d |-> d, name |-> Tail_(name, 1), vis |-> VisibilityProtected]
    ELSE IF name[1] = Ch.nul
    THEN IF IndexByte(name, 1, Ch.nul) = -1
         THEN [d |-> d_error(d, "invalid field name"), name |-> name,
               vis |-> VisibilityPublic]
         ELSE [d |-> d,
               name |-> Tail_(name, IndexByte(name, 1, Ch.nul) + 2),
               vis |-> VisibilityPrivate]
    ELSE [d |-> d, name |-> name, vis |-> VisibilityPublic]

\* make([]T, n)
MakeSlice(d, n) ==
    IF n < 0 THEN d_fault(d, "makeslice: len out of range") ELSE d

RECURSIVE readValue(_)
RECURSIVE readArrayLoop(_, _, _)
RECURSIVE readObjectLoop(_, _, _)

readKey_check(r) ==
    IF Failed(r.d) THEN Res(r.d, 0)
    ELSE IF Value_Type(r.d.h[r.v]) \in {TypeInt, TypeString} THEN r
    ELSE Res(d_error(r.d, "invalid array key type"), 0)

readKey(d) == readKey_check(readValue(d))

\* the loop of readArray: n pairs still to read, ls read so far;
\* k is the key readKey returned, v the value readValue returned
readArrayLoop_set(k, v, n, ls) ==
    IF Failed(v.d) THEN Res(v.d, ls)
    ELSE readArrayLoop(v.d, n - 1, Append(ls, Element(k.v, v.v)))

readArrayLoop_value(k, n, ls) == readArrayLoop_set(k, readValue(k.d), n, ls)

readArrayLoop(d, n, ls) ==
    IF Failed(d) \/ n = 0 THEN Res(d, ls)
    ELSE readArrayLoop_value(readKey(d), n, ls)

readArray_new(ls) == NewIf(skipEq(ls.d, <<Ch.rbrace>>), phpArray(ls.v))

readArray_loop(l) ==
    readArray_new(
        readArrayLoop(MakeSlice(skipEq(l.d, <<Ch.lbrace>>), l.v), l.v, <<>>))

readArray(d) ==
    readArray_loop(readIntBody(skipEq(d, <<Ch.a, Ch.colon>>), Ch.colon))

\* the loop of readObject: n fields still to read, fields read so far;
\* f is the decoded field name, v the value readValue returned
readObjectLoop_set(f, v, n, fields) ==
    IF Failed(v.d) THEN Res(v.d, fields)
    ELSE readObjectLoop(v.d, n - 1,
                        Append(fields, Field(f.name, v.v, f.vis)))

readObjectLoop_value(f, n, fields) ==
    readObjectLoop_set(f, readValue(f.d), n, fields)

readObjectLoop_name(s, n, fields) ==
    readObjectLoop_value(FieldName(s.d, s.v), n, fields)

readObjectLoop(d, n, fields) ==
    IF Failed(d) \/ n = 0 THEN Res(d, fields)
    ELSE readObjectLoop_name(readStringLiteral(d), n, fields)

readObject_new(name, fields) ==
    NewIf(fields.d, phpObject(name, fields.v))

readObject_fields(name, l) ==
    readObject_new(name, readObjectLoop(MakeSlice(l.d, l.v), l.v, <<>>))

readObject_count(name) ==
    readObject_fields(name.v,
                      readIntBody(skipEq(name.d, <<Ch.colon>>), Ch.colon))

readObject_name(nl) == readObject_count(readStrBody(nl.d, nl.v))

readObject(d) ==
    readObject_name(readIntBody(skipEq(d, <<Ch.O, Ch.colon>>), Ch.colon))

readValue(d) ==
    IF Failed(d) THEN Res(d, 0)
    ELSE IF isEOF(d)
    THEN Res(d_error(d, "unexpected EOF in read value type"), 0)
    ELSE CASE d.data[d.off + 1] = Ch.N -> readNil(d)
           [] d.data[d.off + 1] = Ch.b -> readBool(d)
           [] d.data[d.off + 1] = Ch.i -> readInt(d)
           [] d.data[d.off + 1] = Ch.s -> readString(d)
           [] d.data[d.off + 1] = Ch.d -> readFloat(d)
           [] d.data[d.off + 1] = Ch.a -> readArray(d)
           [] d.data[d.off + 1] = Ch.O -> readObject(d)
           [] OTHER -> Res(d_error(d, "unexpected token"), 0)

\* unmarshal without its end-of-input check
unmarshal_ret_noEOF(r) ==
    IF r.d.panic = "runtime"
    THEN [panic |-> TRUE, v |-> 0, err |-> r.d.err, d |-> r.d]
    ELSE IF r.d.panic = "serializeErr"
    THEN [panic |-> FALSE, v |-> 0, err |-> r.d.err, d |-> r.d]
    ELSE [panic |-> FALSE, v |-> r.v, err |-> "", d |-> r.d]

\* decodeState.unmarshal after readValue returned r: the named results
\* (v, err) at return, or the panic that leaves it.  v is assigned before
\* the end-of-input check, and the deferred recover sets err alone.
unmarshal_ret(r) ==
    IF r.d.panic = "runtime"
    THEN [panic |-> TRUE, v |-> 0, err |-> r.d.err, d |-> r.d]
    ELSE IF r.d.panic = "serializeErr"
    THEN [panic |-> FALSE, v |-> 0, err |-> r.d.err, d |-> r.d]
    ELSE IF ~isEOF(r.d)
    THEN [panic |-> FALSE, v |-> r.v, err |-> "unexpected token",
          d |-> r.d]
    ELSE [panic |-> FALSE, v |-> r.v, err |-> "", d |-> r.d]

unmarshal(d) == unmarshal_ret(readValue(d))

Unmarshal(h, data) == unmarshal(newDecodeState(data, h))

\* the caller's `err == nil` on Unmarshal's result r
Unmarshal_OK(r) == ~r.panic /\ r.err = ""

\* encodeState.marshal on a *php.Value, and Marshal around it
Marshal(h, p) ==
    LET w == writePHPValue(newEncodeState, h, p)
    IN  IF w.panic = "" THEN [panic |-> FALSE, bs |-> w.buf, err |-> ""]
        ELSE IF w.panic = "serializeErr"
        THEN [panic |-> FALSE, bs |-> <<>>, err |-> w.err]
        ELSE [panic |-> TRUE, bs |-> <<>>, err |-> w.err]

(***************************************************************************)
(* The structural value behind a pointer: the tree of types and payloads,  *)
(* addresses forgotten.                                                    *)
(***************************************************************************)
RECURSIVE ToValue(_, _)
ToValue(h, p) ==
    IF p = 0 THEN [nil |-> TRUE]
    ELSE LET v == h[p]
         IN  CASE v.t = TypeArray ->
                    phpArray([k \in 1..Len(v.elems) |->
                        Element(ToValue(h, v.elems[k].Index),
                                ToValue(h, v.elems[k].Value))])
               [] v.t = TypeObject ->
                    phpObject(v.obj.Name, [k \in 1..Len(v.obj.Fields) |->
                        Field(v.obj.Fields[k].Name,
                              ToValue(h, v.obj.Fields[k].Value),
                              v.obj.Fields[k].Visibility)])
               [] OTHER -> v

(***************************************************************************)
(* The encoder, generic path.  A reflect.Value is a record with its Kind k *)
(* and, by kind: b (bool), n (the integer kinds), f (the float kinds),     *)
(* s (string), es (array, slice: the elements), m (map: a function from    *)
(* key to value), name and fields (struct), elem (ptr, interface: what it  *)
(* holds; an invalid Value when nil).  The 64-bit words are modelled       *)
(* WordBits wide: an unsigned n converts to the signed n - 2^WordBits from *)
(* 2^(WordBits-1) on.                                                      *)
(***************************************************************************)
WordBits == 4

RECURSIVE Pow2(_)
Pow2(n) == IF n = 0 THEN 1 ELSE 2 * Pow2(n - 1)

\* int64(u) of an unsigned word u
ToSigned(u) == IF u >= Pow2(WordBits - 1) THEN u - Pow2(WordBits) ELSE u

IntKinds == {"int", "int8", "int16", "int32", "int64"}
UintKinds == {"uint", "uint8", "uint16", "uint32", "uint64"}
FloatKinds == {"float32", "float64"}

Invalid == [k |-> "invalid"]

\* reflect.ValueOf(v.Interface()): what an interface Value holds
ValueOfInterface(v) == v.elem

RECURSIVE intVal(_)
intVal(v) ==
    IF v.k \in IntKinds THEN [i |-> v.n, ok |-> TRUE]
    ELSE IF v.k \in UintKinds THEN [i |-> ToSigned(v.n), ok |-> TRUE]
    ELSE IF v.k = "interface" THEN intVal(ValueOfInterface(v))
    ELSE [i |-> 0, ok |-> FALSE]

\* fmt.Sprint of a key, for the kinds that have no integer value
RECURSIVE Sprint(_)
Sprint(v) ==
    IF v.k = "interface" THEN Sprint(ValueOfInterface(v))
    ELSE IF v.k = "string" THEN v.s
    ELSE IF v.k = "bool"
    THEN (IF v.b THEN <<116, 114, 117, 101>>
          ELSE <<102, 97, 108, 115, 101>>)
    ELSE IF v.k \in FloatKinds THEN FormatFloat(v.f)
    ELSE <<>>

\* the less function with the integer comparison the wrong way round
KeyLess_descending(x, y) ==
    IF intVal(x).ok /\ intVal(y).ok THEN intVal(x).i > intVal(y).i
    ELSE IF intVal(x).ok /\ ~intVal(y).ok THEN TRUE
    ELSE IF intVal(y).ok THEN FALSE
    ELSE BytesLess(Sprint(x), Sprint(y))

\* the less function sortKeys hands to sort.Slice
KeyLess(x, y) ==
    LET a == intVal(x)
        b == intVal(y)
    IN  IF a.ok /\ b.ok THEN a.i < b.i
        ELSE IF a.ok /\ ~b.ok THEN TRUE
        ELSE IF b.ok THEN FALSE
        ELSE BytesLess(Sprint(x), Sprint(y))

\* sort.Slice on fewer than 12 elements: insertion sort.  InsertStep moves
\* keys[j] down while it is less than its left neighbour.
RECURSIVE InsertStep(_, _)
InsertStep(keys, j) ==
    IF j > 1 /\ KeyLess(keys[j], keys[j - 1])
    THEN InsertStep([keys EXCEPT ![j] = keys[j - 1], ![j - 1] = keys[j]],
                    j - 1)
    ELSE keys

RECURSIVE InsertionSort(_, _)
InsertionSort(keys, k) ==
    IF k > Len(keys) THEN keys
    ELSE InsertionSort(InsertStep(keys, k), k + 1)

sortKeys(keys) == InsertionSort(keys, 2)

writeUint(w, v) == Write(w, <<Ch.i, Ch.colon>> \o Digits(v) \o <<Ch.semi>>)

raiseError(w, e) == Raise(w, "serializeErr", e)

RECURSIVE writeMapKey(_, _)
writeMapKey(w, v) ==
    IF v.k \in IntKinds THEN writeInt(w, v.n)
    ELSE IF v.k \in UintKinds THEN writeUint(w, v.n)
    ELSE IF v.k = "string" THEN writeString(w, v.s)
    ELSE IF v.k = "interface" THEN writeMapKey(w, ValueOfInterface(v))
    ELSE raiseError(w, "unsupported map key type")

\* the field name writeStruct writes for the field named fname
StructFieldName(name, fname) ==
    IF Ch.a <= fname[1] /\ fname[1] <= Ch.z
    THEN <<Ch.nul>> \o name \o <<Ch.nul>> \o fname
    ELSE fname

\* A reflect.Value read out of an unexported struct field is read-only
\* (flagRO), and so is every Value obtained from it by Elem, Index, Field
\* or MapIndex; Interface() panics on a read-only Value.
ReadOnly(v) == "ro" \in DOMAIN v
MarkRO(v) == ("ro" :> TRUE) @@ v
Child(v, c) == IF ReadOnly(v) THEN MarkRO(c) ELSE c

\* whether the struct field named fname is unexported
Unexported(fname) == ~(Ch.A <= fname[1] /\ fname[1] <= Ch.A + 25)

\* v.Field(k) of the struct v
StructField(v, k) ==
    IF Unexported(v.fields[k].Name) THEN MarkRO(v.fields[k].Value)
    ELSE Child(v, v.fields[k].Value)

\* v.Interface() panics on a read-only Value
InterfacePanics(w) ==
    Raise(w, "runtime",
          "reflect.Value.Interface: cannot return value obtained from unexported field or method")

RECURSIVE writeReflectValue(_, _, _)
RECURSIVE writeArrayFrom(_, _, _, _)
RECURSIVE writeMapFrom(_, _, _, _, _)
RECURSIVE writeStructFrom(_, _, _, _)

\* the loop of writeArray over the elements es[k..]
writeArrayFrom(w, es, k, mk) ==
    IF k > Len(es) THEN w
    ELSE writeArrayFrom(writeReflectValue(writeInt(w, k - 1), es[k], mk),
                        es, k + 1, mk)

writeArray(w, v, mk) ==
    Write(writeArrayFrom(Write(w, ArrayHeader(Len(v.es))),
                         [k \in 1..Len(v.es) |-> Child(v, v.es[k])], 1, mk),
          <<Ch.rbrace>>)

\* the loop of writeMap over the sorted keys[k..]
writeMapFrom(w, m, keys, k, mk) ==
    IF k > Len(keys) THEN w
    ELSE writeMapFrom(
             writeReflectValue(writeMapKey(w, keys[k]), m[keys[k]], mk),
             m, keys, k + 1, mk)

\* mk[K] is the order in which v.MapKeys() returns the key set K
\* the keys of a read-only map are read-only: intVal and writeMapKey panic
\* in Interface() on a key of interface kind
writeMap(w, v, mk) ==
    LET keys == sortKeys(mk[DOMAIN v.m])
    IN  IF ReadOnly(v) /\ \E key \in DOMAIN v.m : key.k = "interface"
        THEN InterfacePanics(IF Cardinality(DOMAIN v.m) > 1 THEN w
                             ELSE Write(w, ArrayHeader(1)))
        ELSE Write(writeMapFrom(Write(w, ArrayHeader(Len(keys))),
                                [key \in DOMAIN v.m |-> Child(v, v.m[key])],
                                keys, 1, mk),
                   <<Ch.rbrace>>)

\* the loop of writeStruct over fields[k..]
writeStructFrom(w, v, k, mk) ==
    IF k > Len(v.fields) THEN w
    ELSE writeStructFrom(
             writeReflectValue(
                 writeString(w, StructFieldName(v.name, v.fields[k].Name)),
                 StructField(v, k), mk),
             v, k + 1, mk)

writeStruct(w, v, mk) ==
    Write(writeStructFrom(
              Write(w, ObjectHeader(v.name, Len(v.fields))), v, 1, mk),
          <<Ch.rbrace>>)

writeReflectValue(w, v0, mk) ==
    IF w.panic # "" THEN w
    ELSE IF v0.k = "invalid" THEN writeNil(w)
    ELSE IF v0.k = "ptr" /\ v0.elem.k = "invalid" THEN writeNil(w)
    ELSE LET v == IF v0.k = "ptr" THEN Child(v0, v0.elem) ELSE v0
         IN  CASE v.k = "bool" -> writeBool(w, v.b)
               [] v.k \in IntKinds -> writeInt(w, v.n)
               [] v.k \in UintKinds -> writeUint(w, v.n)
               [] v.k \in FloatKinds -> writeFloat(w, v.f)
               [] v.k = "string" -> writeString(w, v.s)
               [] v.k \in {"array", "slice"} -> writeArray(w, v, mk)
               [] v.k = "map" -> writeMap(w, v, mk)
               [] v.k = "struct" -> writeStruct(w, v, mk)
               [] v.k = "interface" ->
                      IF ReadOnly(v) THEN InterfacePanics(w)
                      ELSE writeReflectValue(w, ValueOfInterface(v), mk)
               [] OTHER -> raiseError(w, "unsupported type")

(***************************************************************************)
(* Building a Value bottom-up with the constructors: Store(h, v) runs the  *)
(* constructor calls that build the tree v and returns the heap and the    *)
(* pointer to the root.                                                    *)
(***************************************************************************)
RECURSIVE Store(_, _)
RECURSIVE StoreElems(_, _, _, _)
RECURSIVE StoreFields(_, _, _, _)

StoreElems(h, es, k, ls) ==
    IF k > Len(es) THEN [h |-> h, ls |-> ls]
    ELSE LET a == Store(h, es[k].Index)
             b == Store(a.h, es[k].Value)
         IN  StoreElems(b.h, es, k + 1, Append(ls, Element(a.p, b.p)))

StoreFields(h, fs, k, ls) ==
    IF k > Len(fs) THEN [h |-> h, ls |-> ls]
    ELSE LET a == Store(h, fs[k].Value)
         IN  StoreFields(a.h, fs, k + 1,
                         Append(ls, Field(fs[k].Name, a.p,
                                          fs[k].Visibility)))

Store(h, v) ==
    CASE v.t = TypeArray ->
            LET r == StoreElems(h, v.elems, 1, <<>>)
            IN  Alloc(r.h, phpArray(r.ls))
      [] v.t = TypeObject ->
            LET r == StoreFields(h, v.obj.Fields, 1, <<>>)
            IN  Alloc(r.h, phpObject(v.obj.Name, r.ls))
      [] OTHER -> Alloc(h, v)

\* A host value whose type implements Marshaler carries, under hook, what
\* its MarshalPHPSerialize returns; a *php.Value carries, under php, the
\* Value it points to.
IsMarshaler(i) == "hook" \in DOMAIN i
IsPHPValue(i) == "php" \in DOMAIN i

\* writePHPValue(w, v) for the *php.Value built as st
writePHPValueAt(w, st) == writePHPValue(w, st.h, st.p)

writeInterface(w, i, mk) ==
    IF IsMarshaler(i)
    THEN (IF i.hook.err # "" THEN Raise(w, "serializeErr", i.hook.err)
          ELSE Write(w, i.hook.bs))
    ELSE IF IsPHPValue(i) THEN writePHPValueAt(w, Store(<<>>, i.php))
    ELSE writeReflectValue(w, i, mk)

\* Marshal of a host value
MarshalReflect(v, mk) ==
    LET w == writeInterface(newEncodeState, v, mk)
    IN  IF w.panic = "" THEN [panic |-> FALSE, bs |-> w.buf, err |-> ""]
        ELSE IF w.panic = "serializeErr"
        THEN [panic |-> FALSE, bs |-> <<>>, err |-> w.err]
        ELSE [panic |-> TRUE, bs |-> <<>>, err |-> w.err]

(***************************************************************************)
(* The Values the codec is exercised on.                                   *)
(***************************************************************************)
MaxInt == 11        \* largest integer payload
MaxPairs == 2       \* pairs of an Array, fields of an Object
MaxDepth == 1       \* nesting of Arrays and Objects inside an Array

SeqsUpTo(S, n) == UNION {[1..k -> S] : k \in 0..n}

IntSamples == {-MaxInt, -1, 0, 1, MaxInt}
FloatSamples == {Fin(FALSE, 0, 0), Fin(TRUE, 15, 1), Fin(FALSE, 305, 2),
                 Inf_(0), Inf_(-1)}
\* "", a, ", ";, *a, NUL a NUL a
StringSamples == {<<>>, <<Ch.a>>, <<Ch.quote>>, <<Ch.quote, Ch.semi>>,
                  <<Ch.star, Ch.a>>, <<Ch.nul, Ch.a, Ch.nul, Ch.a>>}
NameSamples == {<<>>, <<Ch.a>>, <<Ch.star, Ch.a>>, <<Ch.F, Ch.nul>>}

Scalars ==
    {phpNull} \cup {phpBool(b) : b \in BOOLEAN}
    \cup {phpInt(n) : n \in IntSamples}
    \cup {phpFloat(f) : f \in FloatSamples}
    \cup {phpString(s) : s \in StringSamples}

KeyValues == {phpInt(n) : n \in {-1, 0, MaxInt}}
             \cup {phpString(s) : s \in {<<>>, <<Ch.a>>}}

\* the pairs of the Arrays: a negative key, the keys 0 and MaxInt, a
\* String key
PairSamples ==
    {Element(phpInt(-1), phpNull),
     Element(phpInt(0), phpString(<<Ch.a, Ch.quote>>)),
     Element(phpInt(MaxInt), phpNull),
     Element(phpString(<<Ch.a>>), phpNull)}

\* the fields of the Objects: one of each visibility, a public one named *a
FieldSamples ==
    {Field(<<Ch.a>>, phpNull, VisibilityPublic),
     Field(<<Ch.star, Ch.a>>, phpNull, VisibilityPublic),
     Field(<<Ch.a>>, phpInt(1), VisibilityProtected),
     Field(<<Ch.a>>, phpNull, VisibilityPrivate)}

Visibilities == {VisibilityPublic, VisibilityProtected, VisibilityPrivate}

Objects ==
    {phpObject(n, fs) :
        n \in {<<Ch.F>>, <<Ch.F, Ch.nul>>},
        fs \in SeqsUpTo(FieldSamples, MaxPairs)}
    \cup {phpObject(<<>>, <<>>)}
    \cup {phpObject(<<Ch.F>>, <<Field(fn, phpNull, vis)>>) :
            fn \in NameSamples, vis \in Visibilities}

Arrays ==
    {phpArray(es) : es \in SeqsUpTo(PairSamples, MaxPairs)}
    \cup {phpArray(<<Element(phpString(<<>>), phpNull)>>)}

RECURSIVE Nested(_)
Nested(depth) ==
    IF depth = 0 THEN {phpInt(1)}
    ELSE LET in == Nested(depth - 1)
         IN  {phpArray(<<Element(phpInt(0), v)>>) : v \in in}
             \cup {phpArray(<<Element(phpInt(0), phpObject(<<Ch.F>>, <<>>))>>),
                   phpObject(<<Ch.F>>,
                        <<Field(<<Ch.a>>, CHOOSE v \in in : TRUE,
                                VisibilityPrivate)>>)}

Values == Scalars \cup Arrays \cup Objects
          \cup Nested(MaxDepth + 1)

(***************************************************************************)
(* Spec: a client holds one Value (ret.p), built with the constructors.    *)
(* It calls the accessors, Index, IndexByName and Keys on it, appends to   *)
(* it, wraps it in an Array or an Object, marshals it, may overwrite the   *)
(* marshalled buffer by one edit, and unmarshals the buffer.               *)
(***************************************************************************)
EditBytes == {Ch.minus, Ch.x, Ch.quote, Ch.zero + 1}

\* the buffers one edit away from bs: cut short, one byte deleted,
\* inserted or replaced
Edits(bs) ==
    {SubSeq(bs, 1, k) : k \in 0..(Len(bs) - 1)}
    \cup {SubSeq(bs, 1, k - 1) \o SubSeq(bs, k + 1, Len(bs)) :
            k \in 1..Len(bs)}
    \cup {SubSeq(bs, 1, k) \o <<c>> \o SubSeq(bs, k + 1, Len(bs)) :
            k \in 0..Len(bs), c \in EditBytes}
    \cup {[bs EXCEPT ![k] = c] : k \in 1..Len(bs), c \in EditBytes}

Init ==
    /\ \E v \in Values :
          LET a == Store(<<>>, v)
          IN  heap = a.h /\ ret = [op |-> "init", p |-> a.p]
    /\ arg = Invalid
    /\ buf = <<>>

Addrs == 1..Len(heap)

Accessors == {"Bool", "Int", "Float", "String", "Array", "Object"}

Call(method, v) ==
    CASE method = "Bool" -> Value_Bool(v)
      [] method = "Int" -> Value_Int(v)
      [] method = "Float" -> Value_Float(v)
      [] method = "String" -> Value_String(v)
      [] method = "Array" -> Value_Array(v)
      [] method = "Object" -> Value_Object(v)

AccessorOp ==
    /\ ret.op = "init"
    /\ \E m \in Accessors :
          ret' = [op |-> "Accessor", p |-> ret.p, method |-> m,
                  r |-> Call(m, heap[ret.p])]
    /\ UNCHANGED <<heap, arg, buf>>

\* k := php.Int(n) or php.String(s): a key built by the caller
NewKeyOp ==
    /\ ret.op = "init"
    /\ \E node \in KeyValues :
          /\ heap' = Alloc(heap, node).h
          /\ ret' = [op |-> "NewKey", p |-> ret.p, k |-> Alloc(heap, node).p]
    /\ UNCHANGED <<arg, buf>>

\* v.Index(k), k any pointer the caller holds
IndexOp ==
    /\ ret.op \in {"init", "NewKey"}
    /\ \E k \in Addrs :
          ret' = [op |-> "Index", p |-> ret.p, k |-> k,
                  r |-> Value_Index(heap[ret.p], k)]
    /\ UNCHANGED <<heap, arg, buf>>

IndexByNameOp ==
    /\ ret.op = "init"
    /\ \E name \in {<<>>, <<Ch.a>>} :
          ret' = [op |-> "IndexByName", p |-> ret.p, name |-> name,
                  r |-> Value_IndexByName(heap, heap[ret.p], name)]
    /\ UNCHANGED <<heap, arg, buf>>

KeysOp ==
    /\ ret.op = "init"
    /\ ret' = [op |-> "Keys", p |-> ret.p, r |-> Value_Keys(heap[ret.p])]
    /\ UNCHANGED <<heap, arg, buf>>

\* php.Array(php.Element(k1, v), ...): the held Value under keys the
\* caller picks among the Values it holds
ArrayOp ==
    /\ ret.op = "init"
    /\ \E ks \in SeqsUpTo(Addrs, MaxElems) :
          /\ heap' = Alloc(heap, phpArray([i \in 1..Len(ks) |->
                                            Element(ks[i], ret.p)])).h
          /\ ret' = [op |-> "Array", p |-> Len(heap) + 1, panic |-> FALSE]
    /\ UNCHANGED <<arg, buf>>

\* the Values handed to Append
AppendArgs == {phpInt(1), phpInt(2), phpInt(3)}

\* the constructor calls for the arguments es[k..] of a call
RECURSIVE AllocAll(_, _, _, _)
AllocAll(h, es, k, ps) ==
    IF k > Len(es) THEN [h |-> h, ps |-> ps]
    ELSE AllocAll(Append(h, es[k]), es, k + 1, Append(ps, Len(h) + 1))

AppendDone(r, v, es) ==
    /\ heap' = IF r.panic THEN heap ELSE r.h
    /\ ret' = [op |-> "Append", v |-> v, es |-> es, panic |-> r.panic,
               p |-> IF r.panic THEN v ELSE r.p]

AppendCall(args, v) == AppendDone(phpAppend(args.h, v, args.ps), v, args.ps)

\* php.Append(v, e1, ..., en)
AppendOp ==
    /\ ret.op = "init"
    /\ \E es \in SeqsUpTo(AppendArgs, MaxAppend) :
          AppendCall(AllocAll(heap, es, 1, <<>>), ret.p)
    /\ UNCHANGED <<arg, buf>>

\* the Values of the earlier Append calls: the argument v and the result r
\* of the first one
AppendedV == ret.v
AppendedR == IF ret.op = "Append" THEN ret.p ELSE ret.r

AppendAgainDone(r, target, es) ==
    /\ heap' = IF r.panic THEN heap ELSE r.h
    /\ ret' = [op |-> "AppendAgain", v |-> AppendedV, r |-> AppendedR,
               target |-> target, es |-> es, panic |-> r.panic,
               twice |-> ret.op = "AppendAgain",
               p |-> IF r.panic THEN ret.p ELSE r.p]

AppendAgainCall(args, target) ==
    AppendAgainDone(phpAppend(args.h, target, args.ps), target, args.ps)

\* what the later Append calls append: php.Null(), then php.Bool(true)
AppendedNext == IF ret.op = "Append" THEN phpNull ELSE phpBool(TRUE)

\* after r := php.Append(v, ...): php.Append(v, php.Null(), ...) or
\* php.Append(r, php.Null(), ...), and then once more on the same Value
\* with php.Bool(true)
AppendAgainOp ==
    /\ \/ ret.op = "Append" /\ ~ret.panic
       \/ ret.op = "AppendAgain" /\ ~ret.panic /\ ~ret.twice
    /\ \E target \in (IF ret.op = "Append" THEN {ret.v, ret.p}
                      ELSE {ret.target}), n \in 1..MaxAppend :
          AppendAgainCall(AllocAll(heap, [i \in 1..n |-> AppendedNext], 1,
                                   <<>>),
                          target)
    /\ UNCHANGED <<arg, buf>>

FieldConstructors == {"PubField", "ProtectedField", "PrivField"}

FieldBy(ctor, name, v) ==
    CASE ctor = "PubField" -> PubField(name, v)
      [] ctor = "ProtectedField" -> ProtectedField(name, v)
      [] ctor = "PrivField" -> PrivField(name, v)

\* php.Object("Obj", ctor("a", v)): the held Value as the field of an Object
ObjName == <<Ch.O, Ch.b>>

ObjectOp ==
    /\ ret.op = "init"
    /\ \E ctor \in FieldConstructors :
          /\ heap' = Alloc(heap, phpObject(ObjName,
                               <<FieldBy(ctor, <<Ch.a>>, ret.p)>>)).h
          /\ ret' = [op |-> "Object", p |-> Len(heap) + 1, ctor |-> ctor,
                     panic |-> FALSE]
    /\ UNCHANGED <<arg, buf>>

MarshalDone(r) ==
    /\ buf' = r.bs
    /\ ret' = [op |-> "Marshal", p |-> ret.p, via |-> ret,
               panic |-> r.panic, err |-> r.err]

MarshalOp ==
    /\ \/ ret.op = "init"
       \/ ret.op \in {"Array", "Append", "Object"} /\ ~ret.panic
    /\ MarshalDone(Marshal(heap, ret.p))
    /\ UNCHANGED <<heap, arg>>

EditOp ==
    /\ ret.op = "Marshal" /\ ret.via.op = "init"
    /\ buf' \in Edits(buf) \ {buf}
    /\ ret' = [op |-> "Edit", p |-> ret.p]
    /\ UNCHANGED <<heap, arg>>

\* what UnmarshalOp records of Unmarshal's result r
UnmarshalRet(r, p, edited) ==
    [op |-> "Unmarshal", p |-> p, edited |-> edited, panic |-> r.panic,
     v |-> r.v, err |-> r.err, off |-> r.d.off, parsed |-> ~Failed(r.d),
     out |-> r.d.out]

\* the heap after Unmarshal returned r: the nodes of a decode that returns
\* no Value are garbage
UnmarshalHeap(r, h) == IF r.v = 0 THEN h ELSE r.d.h

UnmarshalDone(r) ==
    /\ heap' = UnmarshalHeap(r, heap)
    /\ ret' = UnmarshalRet(r, ret.p, ret.op = "Edit")

UnmarshalOp ==
    /\ ret.op \in {"Marshal", "Edit"}
    /\ UnmarshalDone(Unmarshal(heap, buf))
    /\ UNCHANGED <<arg, buf>>

Next ==
    \/ AccessorOp \/ NewKeyOp \/ IndexOp \/ IndexByNameOp \/ KeysOp
    \/ ArrayOp \/ AppendOp \/ AppendAgainOp \/ ObjectOp
    \/ MarshalOp \/ EditOp \/ UnmarshalOp

Spec == Init /\ [][Next]_vars

(***************************************************************************)
(* Claims checked under Spec.                                              *)
(***************************************************************************)
Succeeded == ~ret.panic /\ ret.err = "" /\ ret.v # 0
Errored == ~ret.panic /\ ret.err # ""

\* whether every Array of the Value at p has only Int and String keys
RECURSIVE IntOrStringKeys(_, _)
IntOrStringKeys(h, p) ==
    LET v == h[p]
    IN  CASE v.t = TypeArray ->
               \A k \in 1..Len(v.elems) :
                   /\ h[v.elems[k].Index].t \in {TypeInt, TypeString}
                   /\ IntOrStringKeys(h, v.elems[k].Value)
          [] v.t = TypeObject ->
               \A k \in 1..Len(v.obj.Fields) :
                   IntOrStringKeys(h, v.obj.Fields[k].Value)
          [] OTHER -> TRUE

\* C1: Unmarshal(Marshal(v)) succeeds and returns a Value structurally
\* equal to v, for every Value v built by the constructors (no NaN).
C1_RoundTrip ==
    (ret.op = "Unmarshal" /\ ~ret.edited /\ IntOrStringKeys(heap, ret.p)) =>
        Succeeded /\ ToValue(heap, ret.v) = ToValue(heap, ret.p)

\* whether Unmarshal accepts the buffer bs
Accepts(bs) == Unmarshal_OK(Unmarshal(<<>>, bs))

\* C2: Unmarshal returns an error whenever a byte is left over after the
\* top-level value was parsed, and on empty input; what it accepts spans
\* the whole buffer, so no proper prefix of an accepted buffer is accepted.
C2_WholeBuffer ==
    ret.op = "Unmarshal" =>
        /\ (ret.parsed /\ ret.off < Len(buf)) => Errored
        /\ buf = <<>> => Errored
        /\ Succeeded /\ ret.err = "" =>
              /\ ret.parsed /\ ret.off = Len(buf) /\ buf # <<>>
              /\ \A k \in 0..(Len(buf) - 1) : ~Accepts(SubSeq(buf, 1, k))

C2_Witness ==
    /\ ret.op = "Unmarshal" /\ ret.parsed /\ ret.off < Len(buf)
    /\ ret.err # "" /\ buf = sNil \o <<Ch.x>>

\* C3: every Unmarshal call ends with (a Value, no error) or (no Value, an
\* error): no failure leaves the call as a runtime fault, and no Value is
\* returned together with an error.
C3_OneOutcome ==
    ret.op = "Unmarshal" =>
        /\ ~ret.panic
        /\ (ret.v # 0 /\ ret.err = "") \/ (ret.v = 0 /\ ret.err # "")

\* the buffer bs read as `s:<N>:"` followed by rest
StringParts(bs) ==
    LET j == IndexByte(bs, 2, Ch.colon)
        a == Atoi(SubSeq(bs, 3, 2 + j))
    IN  IF /\ Len(bs) >= 2 /\ SubSeq(bs, 1, 2) = <<Ch.s, Ch.colon>>
           /\ j >= 0 /\ a.ok /\ a.n >= 0
           /\ Len(bs) >= j + 4 /\ bs[j + 4] = Ch.quote
        THEN [ok |-> TRUE, n |-> a.n, rest |-> Tail_(bs, j + 4)]
        ELSE [ok |-> FALSE, n |-> 0, rest |-> <<>>]

\* C5: a string is length-delimited: of `s:<N>:"` + rest the content is the
\* first N bytes of rest whatever they are; the decode fails when rest has
\* fewer than N bytes or no closing quote right after them, and succeeds
\* with that content when `";` follows and ends the buffer.
C5_LengthDelimited ==
    (ret.op = "Unmarshal" /\ StringParts(buf).ok) =>
        LET n == StringParts(buf).n
            rest == StringParts(buf).rest
        IN  IF Len(rest) < n + 1 \/ rest[n + 1] # Ch.quote
            THEN Errored /\ ret.v = 0
            ELSE IF Len(rest) = n + 2 /\ rest[n + 2] = Ch.semi
            THEN Succeeded /\ heap[ret.v] = phpString(SubSeq(rest, 1, n))
            ELSE Errored

C5_Witness ==
    /\ ret.op = "Unmarshal" /\ ret.err = "" /\ ret.v # 0
    /\ heap[ret.v] = phpString(<<Ch.quote, Ch.semi>>)
    /\ buf = <<Ch.s, Ch.colon, Ch.zero + 2, Ch.colon, Ch.quote, Ch.quote,
               Ch.semi, Ch.quote, Ch.semi>>

\* the Type an accessor is for
AccessorType(m) ==
    CASE m = "Bool" -> TypeBool
      [] m = "Int" -> TypeInt
      [] m = "Float" -> TypeFloat
      [] m = "String" -> TypeString
      [] m = "Array" -> TypeArray
      [] m = "Object" -> TypeObject

\* the payload of a node, by its Type
PayloadOf(v) ==
    CASE v.t = TypeBool -> v.bool
      [] v.t = TypeInt -> v.int64
      [] v.t = TypeFloat -> v.float64
      [] v.t = TypeString -> v.string
      [] v.t = TypeArray -> v.elems
      [] v.t = TypeObject -> v.obj

\* C6: Bool, Int, Float, Array and Object return the payload on their own
\* variant and panic on any other with a ValueError naming the accessor
\* and the Value's type; String never panics and returns the content of a
\* String, the placeholder <TypeName value> otherwise.
C6_Accessors ==
    ret.op = "Accessor" =>
        LET v == heap[ret.p]
            r == ret.r
            name == typeNames[v.t + 1]
        IN  IF v.t = AccessorType(ret.method)
            THEN ~r.panic /\ r.v = PayloadOf(v)
            ELSE IF ret.method = "String"
            THEN ~r.panic /\ r.v = [text |-> "<" \o name \o " value>"]
            ELSE /\ r.panic
                 /\ r.e = [Method |-> "php.Value." \o ret.method,
                           Type |-> v.t]
                 /\ ValueError_Error(r.e) =
                        "php: call of php.Value." \o ret.method \o " on "
                        \o name \o " Value"

C6_Witness ==
    /\ ret.op = "Accessor" /\ ret.method = "Int"
    /\ heap[ret.p] = phpNull /\ ret.r.panic
    /\ ValueError_Error(ret.r.e) = "php: call of php.Value.Int on null Value"

\* the largest of a non-empty finite set of integers
Max(S) == CHOOSE m \in S : \A n \in S : n <= m

\* the integer keys of the pairs ls
IntKeysOf(h, ls) ==
    {h[ls[i].Index].int64 :
        i \in {j \in 1..Len(ls) : h[ls[j].Index].t = TypeInt}}

\* `a:3:{i:0;i:1;i:1;i:2;i:2;i:3;}`
Appended123 ==
    <<Ch.a, Ch.colon, Ch.zero + 3, Ch.colon, Ch.lbrace,
      Ch.i, Ch.colon, Ch.zero, Ch.semi, Ch.i, Ch.colon, Ch.zero + 1, Ch.semi,
      Ch.i, Ch.colon, Ch.zero + 1, Ch.semi,
      Ch.i, Ch.colon, Ch.zero + 2, Ch.semi,
      Ch.i, Ch.colon, Ch.zero + 2, Ch.semi,
      Ch.i, Ch.colon, Ch.zero + 3, Ch.semi, Ch.rbrace>>

\* the Value a buffer decodes to
Decoded(r) == ToValue(r.d.h, r.v)

\* C7: Append(v, e1..en) on an Array v returns an Array of v's pairs,
\* unchanged and in order, followed by the pairs (k, e1) .. (k+n-1, en)
\* with k = 1 + max(integer keys of v, -1); Append(Array(), 1, 2, 3) equals
\* the decoding of `a:3:{i:0;i:1;i:1;i:2;i:2;i:3;}`.
C7_Append ==
    (ret.op = "Append" /\ heap[ret.v].t = TypeArray) =>
        LET old == heap[ret.v].elems
            n == Len(ret.es)
            k == 1 + Max(IntKeysOf(heap, old) \cup {-1})
            r == heap[ret.p]
        IN  /\ ~ret.panic
            /\ r.t = TypeArray
            /\ Len(r.elems) = Len(old) + n
            /\ SubSeq(r.elems, 1, Len(old)) = old
            /\ \A i \in 1..n :
                  /\ heap[r.elems[Len(old) + i].Index] = phpInt(k + i - 1)
                  /\ r.elems[Len(old) + i].Value = ret.es[i]
            /\ (old = <<>> /\ [i \in 1..n |-> heap[ret.es[i]]]
                               = <<phpInt(1), phpInt(2), phpInt(3)>>) =>
                  ToValue(heap, ret.p) = Decoded(Unmarshal(<<>>, Appended123))

\* Append of two Values to an Array with a negative key, or a String key
\* and the key 11
C7_Witness ==
    /\ ret.op = "Append" /\ ~ret.panic /\ Len(ret.es) = 2
    /\ heap[ret.v].t = TypeArray /\ Len(heap[ret.v].elems) = 2
    /\ \E i, j \in 1..2 :
          /\ heap[heap[ret.v].elems[i].Index].t = TypeString
          /\ heap[heap[ret.v].elems[j].Index] = phpInt(MaxInt)
    /\ heap[heap[ret.p].elems[4].Index] = phpInt(MaxInt + 2)

\* C8: Index(k) returns the value of the first pair whose key equals k
\* (same variant and same content), and nil only when no pair has an equal
\* key, also for a key the caller constructed independently.
C8_IndexByKeyEquality ==
    (ret.op = "Index" /\ heap[ret.p].t = TypeArray) =>
        LET es == heap[ret.p].elems
            I == {i \in 1..Len(es) : heap[es[i].Index] = heap[ret.k]}
        IN  /\ ~ret.r.panic
            /\ ret.r.v = IF heap[ret.k].t \in {TypeInt, TypeString} /\ I # {}
                         THEN es[Min(I)].Value ELSE 0

\* the encoding of Object "Obj" whose one field has the wire name n and
\* holds the Value at p
ObjEncoding(n, p) ==
    ObjectHeader(ObjName, 1) \o writeString(newEncodeState, n).buf
    \o Marshal(heap, p).bs \o <<Ch.rbrace>>

\* the visibility a field constructor is for
VisibilityBy(ctor) ==
    CASE ctor = "PubField" -> VisibilityPublic
      [] ctor = "ProtectedField" -> VisibilityProtected
      [] ctor = "PrivField" -> VisibilityPrivate

\* the wire name of field "a" of Object "Obj" by its constructor
WireNameBy(ctor) ==
    CASE ctor = "PubField" -> <<Ch.a>>
      [] ctor = "ProtectedField" -> <<Ch.star, Ch.a>>
      [] ctor = "PrivField" -> <<Ch.nul>> \o ObjName \o <<Ch.nul, Ch.a>>

\* C9: PubField, ProtectedField and PrivField return a Public, a Protected
\* and a Private field, and Object "Obj" built with them is encoded with
\* the field names `a`, `*a` and `\0Obj\0a`.
C9_FieldConstructors ==
    /\ ret.op = "Object" =>
          heap[ret.p].obj.Fields[1].Visibility = VisibilityBy(ret.ctor)
    /\ (ret.op = "Marshal" /\ ret.via.op = "Object") =>
          /\ ~ret.panic /\ ret.err = ""
          /\ buf = ObjEncoding(WireNameBy(ret.via.ctor),
                               heap[ret.p].obj.Fields[1].Value)

\* the first byte of the first key token of the array node v encoded in bs
FirstKeyToken(v, bs) == bs[Len(ArrayHeader(Len(v.elems))) + 1]

\* C10: every Array that exists after constructor calls or a successful
\* Unmarshal has only Int and String keys, constructing an Array with a
\* key of another variant is a fatal error, and Marshal never emits an
\* array whose key token is other than `i:...;` or `s:...;`.
C10_ArrayKeys ==
    /\ \A p \in Addrs :
          heap[p].t = TypeArray =>
              \A i \in 1..Len(heap[p].elems) :
                  heap[heap[p].elems[i].Index].t \in {TypeInt, TypeString}
    /\ (/\ ret.op = "Marshal" /\ ret.err = ""
        /\ heap[ret.p].t = TypeArray /\ heap[ret.p].elems # <<>>) =>
          FirstKeyToken(heap[ret.p], buf) \in {Ch.i, Ch.s}

\* C14: Unmarshal changes nothing but its own parser state and its return
\* values: on every path it leaves the input buffer as it was and writes
\* nothing to standard output.
C14_NoSideEffect ==
    ret.op = "Unmarshal" =>
        /\ ret.out = <<>>
        /\ Unmarshal(<<>>, buf).d.data = buf

\* C13: Values are immutable: no operation (a second Append on the same
\* Value or an Append on its result, Marshal, Unmarshal, an accessor)
\* changes the pairs or the payload observed through a Value that already
\* exists.
C13_Immutable ==
    [][\A p \in 1..Len(heap) :
          Len(heap') >= p /\ ToValue(heap', p) = ToValue(heap, p)]_vars

(***************************************************************************)
(* SpecReflect: Marshal of a generic host value.  reflect's MapKeys        *)
(* returns the keys of a map in an order that differs from call to call.   *)
(***************************************************************************)
HInt(kind, n) == [k |-> kind, n |-> n]
HString(s) == [k |-> "string", s |-> s]
HBool(b) == [k |-> "bool", b |-> b]
Iface(v) == [k |-> "interface", elem |-> v]

\* an unsigned word that converts to a negative signed word
BigUint == Pow2(WordBits - 1) + 1

\* the keys tried, each with the value the mappings give it
KeyTable ==
    <<[key |-> HString(<<Ch.a>>), val |-> 0],
      [key |-> HInt("int", 0), val |-> 1],
      [key |-> HString(<<Ch.b, Ch.b>>), val |-> 2],
      [key |-> HInt("int", 3), val |-> 3],
      [key |-> HInt("int", 11), val |-> 4],
      [key |-> HInt("int8", 3), val |-> 5],
      [key |-> HInt("uint", BigUint), val |-> 7],
      [key |-> HString(<<Ch.zero + 3>>), val |-> 8],
      [key |-> HBool(TRUE), val |-> 9]>>

KeySamples == {Iface(KeyTable[k].key) : k \in 1..Len(KeyTable)}

ValueFor(key) ==
    HInt("int", KeyTable[CHOOSE k \in 1..Len(KeyTable) :
                            Iface(KeyTable[k].key) = key].val)

HMap(K) == [k |-> "map", m |-> [key \in K |-> ValueFor(key)]]

HostMaps ==
    {HMap(K) : K \in {K \in SUBSET KeySamples : Cardinality(K) <= MaxMapKeys}}

HostOthers ==
    {Invalid, HBool(TRUE), HInt("int", 42), HInt("uint8", 42),
     [k |-> "float64", f |-> Fin(FALSE, 12345, 1)],
     HString(<<Ch.a, Ch.quote>>),
     [k |-> "ptr", elem |-> Invalid],
     [k |-> "ptr", elem |-> HInt("int", 42)],
     [k |-> "ptr", elem |-> [k |-> "ptr", elem |-> HInt("int", 42)]],
     [k |-> "slice", es |-> <<HInt("int", 1), HInt("int", 3),
                              HInt("int", 5)>>],
     [k |-> "slice", es |-> <<>>],
     [k |-> "slice", es |-> <<Iface(HMap({Iface(HInt("int", 0))})),
                              Iface(Invalid)>>],
     [k |-> "struct", name |-> <<Ch.F>>,
      fields |-> <<[Name |-> <<Ch.F>>, Value |-> HString(<<Ch.a>>)],
                   [Name |-> <<Ch.a>>, Value |-> HInt("int", 3)]>>],
     [k |-> "struct", name |-> <<Ch.I>>,
      fields |-> <<[Name |-> <<Ch.a>>, Value |-> Iface(HInt("int", 2))]>>],
     [k |-> "chan"]}

\* a value of type F struct{ A int } whose MarshalPHPSerialize returns
\* (bs, err)
Hooked(bs, err) ==
    [k |-> "struct", name |-> <<Ch.F>>,
     fields |-> <<[Name |-> <<Ch.A>>, Value |-> HInt("int", 1)]>>,
     hook |-> [bs |-> bs, err |-> err]]

\* the interface field i of a scalar php.Value
PayloadHost(node) ==
    CASE node.t = TypeBool -> HBool(node.bool)
      [] node.t = TypeInt -> HInt("int64", node.int64)
      [] node.t = TypeString -> HString(node.string)
      [] OTHER -> Invalid

\* a *php.Value to the scalar node, as reflect sees it: a pointer to
\* struct Value{ t Type; i interface{} }
HostPHPValue(node) ==
    [k |-> "ptr", php |-> node,
     elem |-> [k |-> "struct", name |-> <<86, 97, 108, 117, 101>>,
               fields |-> <<[Name |-> <<116>>,
                             Value |-> HInt("uint", node.t)],
                            [Name |-> <<Ch.i>>,
                             Value |-> Iface(PayloadHost(node))]>>]]

HookOK == Hooked(sTrue, "")
HookFails == Hooked(<<>>, "hook failed")

\* host values that implement Marshaler or are a *php.Value, or hold one
\* in a sequence, a mapping or a record
HookSamples ==
    {HookOK, HookFails,
     HostPHPValue(phpNull), HostPHPValue(phpInt(1)),
     HostPHPValue(phpString(<<Ch.a>>)),
     [k |-> "slice", es |-> <<HookOK, HInt("int", 2)>>],
     [k |-> "slice", es |-> <<HInt("int", 2), HookFails>>],
     [k |-> "slice", es |-> <<Iface(HookOK)>>],
     [k |-> "slice", es |-> <<HostPHPValue(phpInt(1))>>],
     [k |-> "slice", es |-> <<Iface(HostPHPValue(phpNull))>>],
     [k |-> "map", m |-> (Iface(HInt("int", 0)) :> HookOK)],
     [k |-> "struct", name |-> <<Ch.I>>,
      fields |-> <<[Name |-> <<Ch.A>>, Value |-> HookOK]>>]}

\* the orders of the set S
RECURSIVE Perms(_)
Perms(S) ==
    IF S = {} THEN {<<>>}
    ELSE UNION {{<<x>> \o p : p \in Perms(S \ {x})} : x \in S}

\* the key sets of the maps inside the host value v
RECURSIVE KeySets(_)
RECURSIVE KeySetsOfSeq(_, _)
KeySetsOfSeq(vs, k) ==
    IF k > Len(vs) THEN {} ELSE KeySets(vs[k]) \cup KeySetsOfSeq(vs, k + 1)

KeySets(v) ==
    CASE v.k = "map" ->
            {DOMAIN v.m} \cup UNION {KeySets(v.m[key]) : key \in DOMAIN v.m}
      [] v.k \in {"ptr", "interface"} -> KeySets(v.elem)
      [] v.k \in {"array", "slice"} -> KeySetsOfSeq(v.es, 1)
      [] v.k = "struct" ->
            KeySetsOfSeq([k \in 1..Len(v.fields) |-> v.fields[k].Value], 1)
      [] OTHER -> {}

\* what MapKeys may return during one Marshal call: an order per key set
RECURSIVE OrdersOf(_)
OrdersOf(KS) ==
    IF KS = {} THEN {<<>>}
    ELSE LET K == CHOOSE K \in KS : TRUE
         IN  {(K :> p) @@ f : p \in Perms(K), f \in OrdersOf(KS \ {K})}

MapKeyOrders(v) == OrdersOf(KeySets(v))

InitReflect ==
    /\ arg \in HostMaps \cup HostOthers \cup HookSamples
    /\ heap = <<>>
    /\ buf = <<>>
    /\ ret = [op |-> "init"]

MarshalReflectDone(r, mk) ==
    /\ buf' = r.bs
    /\ ret' = [op |-> "Marshal", mapKeys |-> mk, panic |-> r.panic,
               err |-> r.err]

MarshalReflectOp ==
    /\ ret.op = "init"
    /\ \E mk \in MapKeyOrders(arg) :
          MarshalReflectDone(MarshalReflect(arg, mk), mk)
    /\ UNCHANGED <<heap, arg>>

\* the sequence s back to front
Reverse(s) == [i \in 1..Len(s) |-> s[Len(s) + 1 - i]]

MarshalAgainDone(r, mk) ==
    /\ buf' = r.bs
    /\ ret' = [op |-> "MarshalAgain", mapKeys |-> mk, panic |-> r.panic,
               err |-> r.err, first |-> [bs |-> buf, err |-> ret.err]]

MarshalAgainCall(mk) == MarshalAgainDone(MarshalReflect(arg, mk), mk)

\* a second Marshal of the same value: MapKeys returns the keys as in the
\* first call, or back to front
MarshalAgainOp ==
    /\ ret.op = "Marshal" /\ ~ret.panic
    /\ \/ MarshalAgainCall(ret.mapKeys)
       \/ MarshalAgainCall([K \in DOMAIN ret.mapKeys |->
                               Reverse(ret.mapKeys[K])])
    /\ UNCHANGED <<heap, arg>>

NextReflect == MarshalReflectOp \/ MarshalAgainOp

SpecReflect == InitReflect /\ [][NextReflect]_vars

(***************************************************************************)
(* Claims checked under SpecReflect.                                       *)
(***************************************************************************)
\* the value behind the interface a key is held in
RECURSIVE KeyOf(_)
KeyOf(key) == IF key.k = "interface" THEN KeyOf(key.elem) ELSE key

Coercible(key) == KeyOf(key).k \in IntKinds \cup UintKinds

\* the key as a signed word
Coerced(key) ==
    IF KeyOf(key).k \in UintKinds THEN ToSigned(KeyOf(key).n)
    ELSE KeyOf(key).n

\* the comparison of the claim: x sorts strictly before y
SortsBefore(x, y) ==
    IF Coercible(x) /\ Coercible(y) THEN Coerced(x) < Coerced(y)
    ELSE IF Coercible(x) # Coercible(y) THEN Coercible(x)
    ELSE BytesLess(KeyOf(x).s, KeyOf(y).s)

\* the orders of the keys S in which no key sorts before an earlier one
RECURSIVE ClaimedOrders(_)
ClaimedOrders(S) ==
    IF S = {} THEN {<<>>}
    ELSE UNION {{<<x>> \o p : p \in ClaimedOrders(S \ {x})} :
                    x \in {x \in S : \A y \in S : ~SortsBefore(y, x)}}

\* the token of a key and of the integer value behind it
KeyToken(key) ==
    IF KeyOf(key).k = "string"
    THEN <<Ch.s, Ch.colon>> \o FormatInt(Len(KeyOf(key).s))
         \o <<Ch.colon, Ch.quote>> \o KeyOf(key).s \o <<Ch.quote, Ch.semi>>
    ELSE <<Ch.i, Ch.colon>> \o FormatInt(KeyOf(key).n) \o <<Ch.semi>>

IntToken(v) == <<Ch.i, Ch.colon>> \o FormatInt(v.n) \o <<Ch.semi>>

RECURSIVE PairTokens(_, _, _)
PairTokens(m, p, k) ==
    IF k > Len(p) THEN <<>>
    ELSE KeyToken(p[k]) \o IntToken(m[p[k]]) \o PairTokens(m, p, k + 1)

MapEncoding(m, p) ==
    <<Ch.a, Ch.colon>> \o FormatInt(Len(p)) \o <<Ch.colon, Ch.lbrace>>
    \o PairTokens(m, p, 1) \o <<Ch.rbrace>>

EncodableKeys(m) ==
    \A key \in DOMAIN m : Coercible(key) \/ KeyOf(key).k = "string"

\* C4: Marshal of a mapping emits a:<count>:{...} with the keys in an order
\* of the claim's comparison (coercible keys ascending by their signed
\* word, then the others by the bytes of their rendering), each key
\* followed by the encoding of its own value.
C4_MapOrder ==
    (ret.op = "Marshal" /\ arg \in HostMaps /\ EncodableKeys(arg.m)) =>
        /\ ~ret.panic /\ ret.err = ""
        /\ \E p \in ClaimedOrders(DOMAIN arg.m) : buf = MapEncoding(arg.m, p)

\* {"a":0, 0:1, "bb":2, 3:3, 11:4} gives
\* a:5:{i:0;i:1;i:3;i:3;i:11;i:4;s:1:"a";i:0;s:2:"bb";i:2;}
C4_Witness ==
    /\ ret.op = "Marshal" /\ arg.k = "map"
    /\ DOMAIN arg.m = {Iface(KeyTable[k].key) : k \in 1..5}
    /\ ret.mapKeys[DOMAIN arg.m] =
          <<Iface(KeyTable[1].key), Iface(KeyTable[2].key),
            Iface(KeyTable[3].key), Iface(KeyTable[4].key),
            Iface(KeyTable[5].key)>>
    /\ buf = <<97, 58, 53, 58, 123, 105, 58, 48, 59, 105, 58, 49, 59,
               105, 58, 51, 59, 105, 58, 51, 59, 105, 58, 49, 49, 59,
               105, 58, 52, 59, 115, 58, 49, 58, 34, 97, 34, 59,
               105, 58, 48, 59, 115, 58, 50, 58, 34, 98, 98, 34, 59,
               105, 58, 50, 59, 125>>

\* C12: two Marshal calls on the same mapping return the same bytes (and
\* the same error), whatever order the host iterates the map in on each
\* call, also when two distinct keys tie under the sort comparison.
C12_Deterministic ==
    (ret.op = "MarshalAgain" /\ arg.k = "map") =>
        buf = ret.first.bs /\ ret.err = ret.first.err

\* the typed encoding of the php.Value node
TypedEncoding(st) == Marshal(st.h, st.p).bs

\* what the claim has Marshal return for v: the hook's bytes or error
\* wherever a value implements Marshaler, the typed encoding wherever it is
\* a *php.Value, and around them the encoding of the sequence, mapping or
\* record that holds them
RECURSIVE Expected(_)
RECURSIVE ExpectedFrom(_, _, _)
ExpectedFrom(parts, k, acc) ==
    IF k > Len(parts) THEN [bs |-> acc, err |-> ""]
    ELSE LET e == Expected(parts[k].v)
         IN  IF e.err # "" THEN [bs |-> <<>>, err |-> e.err]
             ELSE ExpectedFrom(parts, k + 1, acc \o parts[k].pre \o e.bs)

Closed(r) == IF r.err # "" THEN r ELSE [r EXCEPT !.bs = @ \o <<Ch.rbrace>>]

Expected(v) ==
    CASE IsMarshaler(v) ->
            [bs |-> IF v.hook.err = "" THEN v.hook.bs ELSE <<>>,
             err |-> v.hook.err]
      [] ~IsMarshaler(v) /\ IsPHPValue(v) ->
            [bs |-> TypedEncoding(Store(<<>>, v.php)), err |-> ""]
      [] ~IsMarshaler(v) /\ v.k = "interface" -> Expected(v.elem)
      [] ~IsMarshaler(v) /\ v.k = "slice" ->
            Closed(ExpectedFrom(
                [k \in 1..Len(v.es) |->
                    [pre |-> IntToken(HInt("int", k - 1)), v |-> v.es[k]]],
                1, ArrayHeader(Len(v.es))))
      [] ~IsMarshaler(v) /\ v.k = "map" ->
            LET key == CHOOSE key \in DOMAIN v.m : TRUE
            IN  Closed(ExpectedFrom(
                    <<[pre |-> KeyToken(key), v |-> v.m[key]]>>, 1,
                    ArrayHeader(1)))
      [] ~IsMarshaler(v) /\ v.k = "struct" ->
            Closed(ExpectedFrom(
                [k \in 1..Len(v.fields) |->
                    [pre |-> writeString(newEncodeState,
                                 StructFieldName(v.name,
                                                 v.fields[k].Name)).buf,
                     v |-> v.fields[k].Value]],
                1, ObjectHeader(v.name, Len(v.fields))))
      [] OTHER -> [bs |-> IntToken(v), err |-> ""]

\* C11: wherever the value handed to Marshal, an element of a sequence, a
\* value of a mapping or a field of a record implements Marshaler or is a
\* *php.Value, the bytes emitted for it are those of its hook or its typed
\* encoding; a hook error makes Marshal return that error and no bytes.
C11_HookPrecedence ==
    (ret.op = "Marshal" /\ arg \in HookSamples) =>
        /\ ~ret.panic
        /\ ret.err = Expected(arg).err
        /\ buf = Expected(arg).bs
====
